---- MODULE Spec2Model ----
(***************************************************************************)
(* Model of pygem/glacierdynamics.py: MassRedistributionCurveModel, the    *)
(* yearly geometry update of one glacier flowline by the Huss mass         *)
(* redistribution curves, with its retreat and advance correction loops.   *)
(*                                                                         *)
(* Numbers.  The source computes in float64.  The model computes in exact  *)
(* rationals <<n, d>> (d > 0, lowest terms), so that a conservation or an  *)
(* equality claim is decided by the algorithm and not by rounding.         *)
(*                                                                         *)
(* Bins are numbered 1..nx from the head of the flowline (numpy index 0)   *)
(* to the domain edge (numpy index -1).                                    *)
(***************************************************************************)
EXTENDS Integers, Sequences, FiniteSets, TLC

(***************************************************************************)
(* Exact rational arithmetic                                               *)
(***************************************************************************)
RECURSIVE GCD(_, _)
GCD(a, b) == IF b = 0 THEN a ELSE GCD(b, a % b)

IAbs(n) == IF n < 0 THEN -n ELSE n

RNorm(n, d) ==
    LET s == IF d < 0 THEN -1 ELSE 1
        g == GCD(IAbs(n), IAbs(d))
    IN  <<(s * n) \div g, (s * d) \div g>>

R(n) == <<n, 1>>
Zero == R(0)
One == R(1)

RAdd(x, y) ==
    LET g == GCD(x[2], y[2])
    IN  RNorm(x[1] * (y[2] \div g) + y[1] * (x[2] \div g), (x[2] \div g) * y[2])

RNeg(x) == <<-x[1], x[2]>>
RSub(x, y) == RAdd(x, RNeg(y))

RMul(x, y) ==
    LET g1 == GCD(IAbs(x[1]), y[2])
        g2 == GCD(IAbs(y[1]), x[2])
    IN  RNorm((x[1] \div g1) * (y[1] \div g2), (x[2] \div g2) * (y[2] \div g1))

RInv(x) == IF x[1] < 0 THEN <<-x[2], -x[1]>> ELSE <<x[2], x[1]>>
RDiv(x, y) == RMul(x, RInv(y))

RLt(x, y) == RSub(x, y)[1] < 0
RLe(x, y) == RSub(x, y)[1] <= 0
RAbs(x) == <<IAbs(x[1]), x[2]>>
IsInt(x) == x[2] = 1

RECURSIVE RPow(_, _)
RPow(x, k) == IF k = 0 THEN One ELSE RMul(x, RPow(x, k - 1))

\* A function expression is evaluated again at every application; comparing
\* it tabulates it once, so that arrays computed from arrays stay cheap.
Array(f) == IF f = f THEN f ELSE f

\* the member of a set of one: an intermediate result taken as a value, so
\* that what is computed from it does not compute it again
Only(S) == CHOOSE x \in S : TRUE

RECURSIVE RSumOver(_, _)
\* sum of f[i] over the finite index set S
RSumOver(f, S) ==
    IF S = {} THEN Zero
    ELSE LET i == CHOOSE j \in S : TRUE
         IN  Only({ RAdd(f[i], rest) : rest \in {RSumOver(f, S \ {i})} })

RSum(f) == Only({ RSumOver(g, DOMAIN g) : g \in {f} })


\* smallest and largest of f[i] over a non-empty index set S
RMinOver(f, S) == f[CHOOSE i \in S : \A j \in S : RLe(f[i], f[j])]
RMaxOver(f, S) == f[CHOOSE i \in S : \A j \in S : RLe(f[j], f[i])]

\* smallest member of a non-empty set of bin indices (numpy's [0][0])
First(S) == CHOOSE i \in S : \A j \in S : i <= j

(***************************************************************************)
(* Parameters of pygem_input.py                                            *)
(***************************************************************************)
icethickness_advancethreshold == 5
terminus_percentage == 20
option_massredistribution == 1
\* tolerance = 1e-12.  Every non-zero magnitude an exact rational of the
\* model can take is far above 1e-12, so "abs(x) < tolerance" is "x = 0".
BelowTolerance(x) == x = Zero

(***************************************************************************)
(* State                                                                   *)
(*                                                                         *)
(* fl     the flowline as constructed: per-bin bed elevation bed_h, bed    *)
(*        width w0, whether the bin's width goes to zero with its ice      *)
(*        (tapered), and the bin spacing dx_meter.  Never written.         *)
(* thick  fls[0].thick, the ice thickness of every bin (the flowline's     *)
(*        own state: section, widths_m and surface_h derive from it).      *)
(* prm    the constructor's arguments (nfls: the number of flowlines) and  *)
(*        glac_idx_initial.                                                *)
(* pc     where the model stands: "idle" between calls, "retreat" at the   *)
(*        head of the retreat loop, "advance" at the head of the advance   *)
(*        loop, "check" when updategeometry has returned to run_until,     *)
(*        "sample" when run_until has returned to run_until_and_store,     *)
(*        "crashed" after an uncaught exception, "rejected" when the       *)
(*        constructor has raised and there is no instance.                 *)
(* The other variables are updategeometry's locals and the mass-balance    *)
(* provider's annual arrays; cv and av record the last curve invocation    *)
(* and the last advance pass for the properties below.                     *)
(* rs     run_until_and_store: the calls made, the arguments of the last   *)
(*        one, whether it stands in its loop (on) or has returned          *)
(*        (done), the length ny of its time axis, the loop index i, and    *)
(*        the indices written so far of the series volume_m3, area_m2 and  *)
(*        length_m (sampled), of ela_m (ela) and of calving_m3 (calving),  *)
(*        the snapshot index j, the thickness the call started from, and   *)
(*        per time index the sections stored (sects) and the value of      *)
(*        volume_m3, each a sequence that is empty while still NaN.        *)
(* ru     run_until over several years: the calls made, whether one stands *)
(*        in its loop (on), its target y1, the year of the loop, and the   *)
(*        years handed to updategeometry by these calls so far (applied).  *)
(* sel    one evaluation of the curve's coefficient selection on its own:  *)
(*        the widths and thicknesses handed in and the coefficients read.  *)
(***************************************************************************)
VARIABLES fl, thick, prm, pc, err, calls, mb_calls, year, branch,
          heights, thick_t0, massbal, glacier_volumechange,
          icethickness_change, glacier_volumechange_remaining,
          cv, av, npass, nretreat, diag, sel, rs, ru

vars == <<fl, thick, prm, pc, err, calls, mb_calls, year, branch,
          heights, thick_t0, massbal, glacier_volumechange,
          icethickness_change, glacier_volumechange_remaining,
          cv, av, npass, nretreat, diag, sel, rs, ru>>

(***************************************************************************)
(* Bounds of the model                                                     *)
(***************************************************************************)
\* updategeometry calls explored in one behaviour
MaxCalls == 2
\* model years 0 .. MaxYear - 1
MaxYear == 2
\* passes of the advance loop followed within one call
MaxPass == 3
\* time units in a year (the source: days * 24 * 3600 seconds)
SecInYear == 2
\* a call is explored from geometries whose thicknesses have denominators
\* up to MaxDen
MaxDen == 1

Years == 0 .. (MaxYear - 1)

(***************************************************************************)
(* The flowline (oggm Flowline, as used by this module)                    *)
(***************************************************************************)
Nonzero(t) == {i \in DOMAIN t : t[i] # Zero}

\* a clip_min that lets every value through
clip_minNoFloor(x, lo) == x

clip_min(x, lo) == IF RLt(x, lo) THEN lo ELSE x

\* fl.widths_m: the bed width; a tapered bin has no width without ice
widths_m(t) ==
    Array([i \in DOMAIN t |-> IF fl.tapered[i] /\ t[i] = Zero THEN Zero ELSE R(fl.w0[i])])

\* fl.section: the cross-sectional area of the ice
section(t) == Array([i \in DOMAIN t |-> RMul(R(fl.w0[i]), t[i])])

\* fl.surface_h = bed_h + thick
surface_h(t) == Array([i \in DOMAIN t |-> RAdd(R(fl.bed_h[i]), t[i])])

\* fl.section = val: the thickness that gives the section, never negative
SetSection(val) ==
    Array([i \in DOMAIN val |-> clip_min(RDiv(val[i], R(fl.w0[i])), Zero)])

Scale(f, c) == Array([i \in DOMAIN f |-> RMul(f[i], c)])

Times(f, g) == Array([i \in DOMAIN f |-> RMul(f[i], g[i])])

(***************************************************************************)
(* _massredistributioncurveHuss                                            *)
(***************************************************************************)
\* the selection with the bounds 20 and 5 counted to the larger glacier
HussCoefficientsFromBound(area) ==
    IF RLe(R(20), area) THEN [gamma |-> 6, a |-> RNorm(-2, 100), b |-> RNorm(12, 100), c |-> Zero]
    ELSE IF RLe(R(5), area) THEN [gamma |-> 4, a |-> RNorm(-5, 100), b |-> RNorm(19, 100), c |-> RNorm(1, 100)]
    ELSE [gamma |-> 2, a |-> RNorm(-30, 100), b |-> RNorm(60, 100), c |-> RNorm(9, 100)]

\* [gamma, a, b, c] by the glacier area
HussCoefficients(area) ==
    IF RLt(R(20), area) THEN [gamma |-> 6, a |-> RNorm(-2, 100), b |-> RNorm(12, 100), c |-> Zero]
    ELSE IF RLt(R(5), area) THEN [gamma |-> 4, a |-> RNorm(-5, 100), b |-> RNorm(19, 100), c |-> RNorm(1, 100)]
    ELSE [gamma |-> 2, a |-> RNorm(-30, 100), b |-> RNorm(60, 100), c |-> RNorm(9, 100)]

\* delta_h = (h_n + a)**gamma + b*(h_n + a) + c, limited to between 0 and 1
NormCurve(h, k) ==
    Only({ IF RLt(One, v) THEN One ELSE IF RLt(v, Zero) THEN Zero ELSE v :
           v \in { RAdd(RAdd(RPow(x, k.gamma), RMul(k.b, x)), k.c) : x \in {RAdd(h, k.a)} } })

\* glacier_area_t0 = width_t0 * dx, zero where thick_t0 is zero
MaskedArea(width, thk) ==
    Array([i \in DOMAIN thk |-> IF thk[i] = Zero THEN Zero ELSE RMul(width[i], R(fl.dx_meter))])

\* the curve laid over the area without the scaling by the volume change
CurveVolumeChangeUnscaled(glacier_area_t0, glac_idx_t0, dV, hts) ==
    LET k == HussCoefficients(RSum(glacier_area_t0))
        hmax == RMaxOver(hts, glac_idx_t0)
        hmin == RMinOver(hts, glac_idx_t0)
    IN  Array([i \in DOMAIN hts |->
            IF RLt(Zero, glacier_area_t0[i])
            THEN RMul(NormCurve(RDiv(RSub(hmax, hts[i]), RSub(hmax, hmin)), k),
                      glacier_area_t0[i])
            ELSE Zero])

\* bin_volumechange of the curve branch (more than 3 active bins)
CurveVolumeChange(glacier_area_t0, glac_idx_t0, dV, hts) ==
    Only({ LET elevrange_norm ==
                   Array([i \in DOMAIN hts |->
                       IF RLt(Zero, glacier_area_t0[i])
                       THEN RDiv(RSub(hmax, hts[i]), RSub(hmax, hmin)) ELSE Zero])
               icethicknesschange_norm ==
                   Array([i \in DOMAIN hts |->
                       IF RLt(Zero, glacier_area_t0[i])
                       THEN NormCurve(elevrange_norm[i], k) ELSE Zero])
           IN  Only({ Only({ Array([i \in DOMAIN hts |->
                                 RMul(RMul(norm[i], fs_huss), glacier_area_t0[i])]) :
                             fs_huss \in {RDiv(dV, RSum(Times(glacier_area_t0, norm)))} }) :
                      norm \in {icethicknesschange_norm} }) :
           k \in {HussCoefficients(RSum(glacier_area_t0))},
           hmax \in {RMaxOver(hts, glac_idx_t0)},
           hmin \in {RMinOver(hts, glac_idx_t0)} })

\* the curve divides by the elevation range of the active bins and by the
\* area-weighted sum of the curve: a zero there makes every result NaN
CurveIsNaN(glacier_area_t0, glac_idx_t0, hts) ==
    \/ RMaxOver(hts, glac_idx_t0) = RMinOver(hts, glac_idx_t0)
    \/ \E k \in {HussCoefficients(RSum(glacier_area_t0))},
          hmax \in {RMaxOver(hts, glac_idx_t0)},
          hmin \in {RMinOver(hts, glac_idx_t0)} :
          \A i \in glac_idx_t0 :
             NormCurve(RDiv(RSub(hmax, hts[i]), RSub(hmax, hmin)), k) = Zero

\* the fallback with the sign of the mass balance turned
FallbackVolumeChangeNegated(glacier_area_t0, massbalclim_annual) ==
    Times(glacier_area_t0, Scale(massbalclim_annual, R(-1)))

\* bin_volumechange of the other branch: the climatic mass balance
FallbackVolumeChange(glacier_area_t0, massbalclim_annual) ==
    Times(massbalclim_annual, glacier_area_t0)

\* the curve taken from 5 active bins on
UseCurveAboveFour(glac_idx_t0) == Cardinality(glac_idx_t0) > 4

\* glac_idx_t0.shape[0] > 3
UseCurve(glac_idx_t0) == Cardinality(glac_idx_t0) > 3

\* the section after the update, limited to zero from below
ClippedSection(sec, section_change) ==
    Array([i \in DOMAIN sec |-> clip_min(RAdd(sec[i], section_change[i]), Zero)])

Zeros(t) == [i \in DOMAIN t |-> Zero]

\* the volume not applied counted as a positive amount
VolumeNotApplied(bin_volumechange_remaining) ==
    RSub(Zero, RSum(bin_volumechange_remaining))

\* line 702: glacier_volumechange_remaining = bin_volumechange_remaining.sum()
VolumeChangeRemaining(bin_volumechange_remaining) ==
    RSum(bin_volumechange_remaining)

\* lines 688-703 on the updated thickness newthick
RedistributedTo(cur, section_t0, thk_t0, dV, taken, bin_volumechange, raw, newthick) ==
    LET bin_remaining ==
            Array([i \in DOMAIN cur |->
                LET r == RSub(bin_volumechange[i],
                              RSub(RMul(section(newthick)[i], R(fl.dx_meter)),
                                   RMul(section_t0[i], R(fl.dx_meter))))
                IN  IF BelowTolerance(r) THEN Zero ELSE r])
    IN  [nan |-> FALSE, thick |-> newthick,
         icethickness_change |-> Array([i \in DOMAIN cur |-> RSub(newthick[i], thk_t0[i])]),
         remaining |-> VolumeChangeRemaining(bin_remaining),
         branch |-> taken,
         requested |-> dV,
         applied |-> RSum(Scale([i \in DOMAIN cur |->
                             RSub(section(newthick)[i], section(cur)[i])], R(fl.dx_meter))),
         clamped |-> \E i \in DOMAIN cur : RLt(raw[i], Zero),
         bin_volumechange |-> bin_volumechange]

\* lines 685-703: the section is updated with the bins' volume changes and
\* the thickness change and the volume not applied are computed.  Returns
\* the new thickness, icethickness_change, glacier_volumechange_remaining,
\* and what the properties need of the invocation: the branch taken, the
\* volume change asked for and applied, whether a bin was limited at zero,
\* and the bins' volume changes.
Redistributed(cur, section_t0, thk_t0, dV, taken, bin_volumechange) ==
    Only({ Only({ RedistributedTo(cur, section_t0, thk_t0, dV, taken, bin_volumechange,
                      Array([i \in DOMAIN cur |-> RAdd(section(cur)[i], section_change[i])]),
                      newthick) :
                  newthick \in {SetSection(ClippedSection(section(cur), section_change))} }) :
           section_change \in {Scale(bin_volumechange, RInv(R(fl.dx_meter)))} })

\* The whole function on the flowline thickness cur; its result also
\* carries the number of active bins, the glacier area and the mass balance
\* it was handed.
massredistributioncurveHuss(cur, section_t0, thk_t0, width_t0, glac_idx_t0, dV, massbalclim_annual, hts) ==
    Only({ [nactive |-> Cardinality(glac_idx_t0), area |-> glacier_area_t0,
            field |-> massbalclim_annual, thk_t0 |-> thk_t0, section_t0 |-> section_t0] @@
           (IF ~UseCurve(glac_idx_t0)
            THEN Redistributed(cur, section_t0, thk_t0, dV, "fallback",
                               FallbackVolumeChange(glacier_area_t0, massbalclim_annual))
            ELSE IF CurveIsNaN(glacier_area_t0, glac_idx_t0, hts)
            THEN [nan |-> TRUE, thick |-> cur, icethickness_change |-> Zeros(cur),
                  remaining |-> Zero, branch |-> "curve", requested |-> dV,
                  applied |-> Zero, clamped |-> FALSE, bin_volumechange |-> Zeros(cur)]
            ELSE Redistributed(cur, section_t0, thk_t0, dV, "curve",
                               CurveVolumeChange(glacier_area_t0, glac_idx_t0, dV, hts))) :
           glacier_area_t0 \in {MaskedArea(width_t0, thk_t0)} })

(***************************************************************************)
(* Construction                                                            *)
(***************************************************************************)
Ints(q) == [i \in DOMAIN q |-> R(q[i])]

\* The flowlines explored: five unit bins (four or five of them under ice,
\* so the curve applies) and three wider bins (the other branch), with
\* rectangular and tapered beds, one bed that holds no ice, one with ice
\* in its last bin as thick as the domain check allows, one with two
\* bins without ice below the terminus, and one of four bins whose second
\* bin, once empty, lies level with the surface of the third.
Flowlines ==
    { [bed_h |-> <<40, 30, 20, 10, 0>>, w0 |-> <<1, 1, 1, 1, 1>>, dx_meter |-> 1,
       tapered |-> <<FALSE, FALSE, FALSE, FALSE, TRUE>>, thick |-> <<4, 4, 4, 4, 0>>],
      [bed_h |-> <<40, 30, 20, 10, 0>>, w0 |-> <<1, 1, 1, 1, 1>>, dx_meter |-> 1,
       tapered |-> <<FALSE, FALSE, FALSE, FALSE, FALSE>>, thick |-> <<4, 4, 4, 4, 0>>],
      [bed_h |-> <<40, 30, 20, 10, 0>>, w0 |-> <<1, 1, 1, 1, 1>>, dx_meter |-> 1,
       tapered |-> <<FALSE, FALSE, FALSE, TRUE, TRUE>>, thick |-> <<6, 5, 3, 2, 1>>],
      [bed_h |-> <<20, 10, 0>>, w0 |-> <<2, 1, 1>>, dx_meter |-> 2,
       tapered |-> <<FALSE, FALSE, TRUE>>, thick |-> <<3, 2, 0>>],
      [bed_h |-> <<20, 10, 0>>, w0 |-> <<2, 1, 1>>, dx_meter |-> 2,
       tapered |-> <<FALSE, FALSE, FALSE>>, thick |-> <<3, 2, 1>>],
      [bed_h |-> <<20, 10, 0>>, w0 |-> <<2, 1, 1>>, dx_meter |-> 2,
       tapered |-> <<FALSE, TRUE, TRUE>>, thick |-> <<0, 0, 0>>],
      [bed_h |-> <<20, 10, 0>>, w0 |-> <<2, 1, 1>>, dx_meter |-> 2,
       tapered |-> <<FALSE, FALSE, FALSE>>, thick |-> <<3, 2, 10>>],
      [bed_h |-> <<20, 10, 0>>, w0 |-> <<2, 1, 1>>, dx_meter |-> 2,
       tapered |-> <<FALSE, TRUE, TRUE>>, thick |-> <<3, 0, 0>>],
      [bed_h |-> <<40, 12, 10, 0>>, w0 |-> <<1, 1, 1, 1>>, dx_meter |-> 1,
       tapered |-> <<FALSE, FALSE, FALSE, FALSE>>, thick |-> <<3, 3, 5, 0>>] }

\* option_areaconstant, spinupyears, constantarea_years, and of the
\* keyword arguments handed on check_for_boundaries and is_tidewater
Options ==
    { [option_areaconstant |-> FALSE, spinupyears |-> 0, constantarea_years |-> 0,
       check_for_boundaries |-> TRUE, is_tidewater |-> FALSE],
      [option_areaconstant |-> TRUE,  spinupyears |-> 0, constantarea_years |-> 0,
       check_for_boundaries |-> TRUE, is_tidewater |-> FALSE],
      [option_areaconstant |-> FALSE, spinupyears |-> 1, constantarea_years |-> 0,
       check_for_boundaries |-> TRUE, is_tidewater |-> TRUE],
      [option_areaconstant |-> FALSE, spinupyears |-> 0, constantarea_years |-> 1,
       check_for_boundaries |-> FALSE, is_tidewater |-> FALSE] }

\* what get_annual_mb may return for nx bins, in ice per time unit: the same
\* value in every bin, gain in the head bin and loss below it, or a gain
\* above the advance threshold in the head bin, at it in the second bin and
\* loss below them
MBFields(nx) ==
    { [i \in 1..nx |-> R(c)] : c \in {-2, -1, 0, 1, 6} }
      \cup { [i \in 1..nx |-> IF i = 1 THEN R(2) ELSE R(-3)] }
      \cup { [i \in 1..nx |-> IF i = 1 THEN R(6) ELSE IF i = 2 THEN R(5) ELSE R(-3)] }


NoCurve == [branch |-> "none", requested |-> Zero, applied |-> Zero, clamped |-> FALSE,
            nactive |-> 0, area |-> <<>>, field |-> <<>>, bin_volumechange |-> <<>>,
            thk_t0 |-> <<>>, section_t0 |-> <<>>, remaining |-> Zero]
NoAdvance == [outcome |-> "none", volume |-> Zero, left |-> Zero, bin2add |-> 0,
              capped |-> FALSE, before |-> <<>>, advancing |-> {}, capthick |-> <<>>,
              section2add |-> <<>>, filled2add |-> <<>>, terminus_avg |-> <<>>]
Unset(t) == [set |-> FALSE, area |-> Zeros(t), thick |-> Zeros(t), width |-> Zeros(t),
             wide_area |-> Zero, wide_volume |-> Zero]

NoStore == [calls |-> 0, y1 |-> Zero, hemisphere |-> "none",
            on |-> FALSE, done |-> FALSE, ny |-> 0, i |-> 0,
            sampled |-> {}, ela |-> {}, calving |-> {},
            j |-> 0, start |-> <<>>, sects |-> <<>>, volume_m3 |-> <<>>]

NoRun == [calls |-> 0, on |-> FALSE, y1 |-> 0, next |-> 0, applied |-> <<>>]
NoSelection == [width |-> <<>>, thk |-> <<>>, k |-> <<>>]

\* the lengths of the list of flowlines handed to __init__, each entry a
\* copy of the one flowline
FlowlineCounts == {1, 2, 3}

\* an assertion that takes any list of flowlines
AnyFlowlines(n) == TRUE

\* assert len(flowlines) == 1, line 73
OneFlowline(n) == n = 1

\* __init__ on n flowlines: y0 = 0, glac_idx_initial = fl.thick.nonzero(),
\* and the assertion, after which no instance exists ("rejected")
Constructed(f, o, n) ==
        /\ fl = [bed_h |-> f.bed_h, w0 |-> f.w0, tapered |-> f.tapered, dx_meter |-> f.dx_meter]
        /\ thick = Ints(f.thick)
        /\ prm = [option_areaconstant |-> o.option_areaconstant,
                  spinupyears |-> o.spinupyears,
                  constantarea_years |-> o.constantarea_years,
                  check_for_boundaries |-> o.check_for_boundaries,
                  is_tidewater |-> o.is_tidewater,
                  nfls |-> n,
                  glac_idx_initial |-> Nonzero(Ints(f.thick))]
        /\ pc = IF OneFlowline(n) THEN "idle" ELSE "rejected"
        /\ err = IF OneFlowline(n) THEN "none" ELSE "AssertionError"
        /\ calls = 0
        /\ mb_calls = 0
        /\ year = 0
        /\ branch = "none"
        /\ heights = [i \in DOMAIN f.thick |-> R(f.bed_h[i] + f.thick[i])]
        /\ thick_t0 = Ints(f.thick)
        /\ massbal = Zeros(f.thick)
        /\ glacier_volumechange = Zero
        /\ icethickness_change = Zeros(f.thick)
        /\ glacier_volumechange_remaining = Zero
        /\ cv = NoCurve
        /\ av = NoAdvance
        /\ npass = 0
        /\ nretreat = 0
        /\ diag = [y \in Years |-> Unset(f.thick)]

Init ==
    \E f \in Flowlines, o \in Options, n \in FlowlineCounts :
        Constructed(f, o, n) /\ sel = NoSelection /\ rs = NoStore /\ ru = NoRun

(***************************************************************************)
(* updategeometry                                                          *)
(***************************************************************************)
\* the recording with the bin area left as the bin width
RecordWidthAsArea(d, y, t) ==
    [d EXCEPT ![y] = [set |-> TRUE, area |-> widths_m(t), thick |-> t, width |-> widths_m(t),
                      wide_area |-> RSum(widths_m(t)),
                      wide_volume |-> RSum(Times(widths_m(t), t))]]

\* the provider's annual arrays at index int(year), lines 391-396
Record(d, y, t) ==
    LET area == Scale(widths_m(t), R(fl.dx_meter))
    IN  [d EXCEPT ![y] = [set |-> TRUE, area |-> area, thick |-> t, width |-> widths_m(t),
                          wide_area |-> RSum(area),
                          wide_volume |-> RSum(Times(area, t))]]

\* the test of line 335 without its constant-area window
FrozenWithoutWindow(y) ==
    \/ prm.option_areaconstant
    \/ y < prm.spinupyears

\* CONSTANT AREAS, line 335
Frozen(y) ==
    \/ prm.option_areaconstant
    \/ y < prm.spinupyears
    \/ y < prm.constantarea_years

\* the geometries a call is explored from
Explored(t) == \A i \in DOMAIN t : t[i][2] <= MaxDen

\* a call begins: the copies of lines 319-322.  Within run_until_and_store
\* the year is the loop's; a behaviour is followed up to the return of its
\* one run_until_and_store call.
Begin(y) ==
    /\ pc = "idle"
    /\ calls < MaxCalls
    /\ rs.calls = 0 \/ rs.on
    /\ rs.on => y = rs.i
    /\ ru.calls = 0 \/ ru.on
    /\ ru.on => y = ru.next
    /\ ru' = IF ru.on THEN [ru EXCEPT !.applied = Append(@, y)] ELSE ru
    /\ Explored(thick)
    /\ calls' = calls + 1
    /\ year' = y
    /\ heights' = surface_h(thick)
    /\ thick_t0' = thick
    /\ npass' = 0
    /\ nretreat' = 0
    /\ av' = NoAdvance
    /\ UNCHANGED <<fl, prm, sel, rs>>

\* constant area: the mass balance is run, the geometry is not touched
UpdateFrozen(y, mb) ==
    /\ Begin(y)
    /\ Frozen(y)
    /\ mb_calls' = mb_calls + 1
    /\ massbal' = mb
    /\ branch' = "frozen"
    /\ diag' = Record(diag, y, thick)
    /\ pc' = "check"
    /\ UNCHANGED <<thick, err, glacier_volumechange, icethickness_change,
                   glacier_volumechange_remaining, cv>>

\* a glacier taken to have ice wherever a bin has a width
HasWidth(t) == Nonzero(widths_m(t)) # {}

\* line 379: len(section_t0.nonzero()[0]) > 0
HasIce(t) == Nonzero(section(t)) # {}

\* no bin has a section left: nothing is run
UpdateNoIce(y) ==
    /\ Begin(y)
    /\ ~Frozen(y)
    /\ ~HasIce(thick)
    /\ branch' = "noice"
    /\ diag' = Record(diag, y, thick)
    /\ pc' = "check"
    /\ UNCHANGED <<thick, err, mb_calls, massbal, glacier_volumechange,
                   icethickness_change, glacier_volumechange_remaining, cv>>

(***************************************************************************)
(* _massredistributionHuss                                                 *)
(***************************************************************************)
Advancing(change) ==
    \E i \in DOMAIN change : RLt(R(icethickness_advancethreshold), change[i])

\* the loops' tests with the retreat loop running while remaining <= 0
NextPcRetreatOnZero(phase, remaining, change) ==
    IF phase = "retreat" /\ RLe(remaining, Zero) THEN "retreat"
    ELSE IF Advancing(change) THEN "advance"
    ELSE "check"

\* where control goes after a curve invocation: the retreat loop's test
\* (only before the advance loop has been entered), then the advance loop's
NextPc(phase, remaining, change) ==
    IF phase = "retreat" /\ RLt(remaining, Zero) THEN "retreat"
    ELSE IF Advancing(change) THEN "advance"
    ELSE "check"

\* the result of a curve invocation is stored and the loops' tests are made;
\* when neither loop is (re-)entered the call returns through lines 388-396.
\* The result is bound as a value, computed once.
Continue(result, phase) ==
    \E res \in {result} :
        /\ thick' = res.thick
        /\ icethickness_change' = res.icethickness_change
        /\ glacier_volumechange_remaining' = res.remaining
        /\ cv' = [branch |-> res.branch, requested |-> res.requested,
                  applied |-> res.applied, clamped |-> res.clamped,
                  nactive |-> res.nactive, area |-> res.area, field |-> res.field,
                  bin_volumechange |-> res.bin_volumechange,
                  thk_t0 |-> res.thk_t0, section_t0 |-> res.section_t0,
                  remaining |-> res.remaining]
        /\ IF res.nan
           THEN /\ pc' = "crashed"
                /\ err' = "nan"
                /\ diag' = diag
           ELSE /\ pc' = NextPc(phase, res.remaining, res.icethickness_change)
                /\ err' = err
                /\ diag' = IF pc' = "check" THEN Record(diag, year', res.thick) ELSE diag

\* glacier_volumechange = (massbal * sec_in_year * glacier_area_t0).sum()
VolumeChange(mb, width, thk) ==
    RSum(Times(Scale(mb, R(SecInYear)), MaskedArea(width, thk)))

\* glacier_volume_total = (section * dx).sum()
VolumeTotal(t) == RSum(Scale(section(t), R(fl.dx_meter)))

\* lines 446-449: mass is redistributed if the loss is less than the volume
LossBelowVolume(dV, t) == RLt(RNeg(dV), VolumeTotal(t))

\* MASS REDISTRIBUTION: the mass balance is run, the volume change is
\* computed and, if the loss is below the glacier's volume, the curve is
\* applied a first time
UpdateRedistribute(y, mb) ==
    /\ Begin(y)
    /\ ~Frozen(y)
    /\ HasIce(thick)
    /\ mb_calls' = mb_calls + 1
    /\ massbal' = mb
    /\ LET dV == VolumeChange(mb, widths_m(thick), thick)
       IN  /\ glacier_volumechange' = dV
           /\ IF LossBelowVolume(dV, thick)
              THEN /\ branch' = "redistribute"
                   /\ Continue(massredistributioncurveHuss(
                                   thick, section(thick), thick, widths_m(thick),
                                   Nonzero(thick), dV, mb, surface_h(thick)),
                               "retreat")
              ELSE /\ branch' = "gone"
                   /\ diag' = Record(diag, y, thick)
                   /\ pc' = "check"
                   /\ UNCHANGED <<thick, err, icethickness_change,
                                  glacier_volumechange_remaining, cv>>

\* massbalclim_retreat: the remaining change over the area, on active bins
RetreatField(t, t0, remaining) ==
    LET glacier_area_t0_retreated == MaskedArea(widths_m(t), t0)
    IN  Array([i \in DOMAIN t |->
            IF t[i] # Zero
            THEN RDiv(remaining, RSum(glacier_area_t0_retreated)) ELSE Zero])

\* one pass of "while glacier_volumechange_remaining < 0"
RetreatPass ==
    /\ pc = "retreat"
    /\ UNCHANGED <<fl, prm, sel, rs, ru, calls, mb_calls, year, branch, heights, thick_t0,
                   massbal, glacier_volumechange, av, npass>>
    /\ nretreat' = nretreat + 1
    /\ Continue(massredistributioncurveHuss(
                    thick, section(thick), thick, widths_m(thick), Nonzero(thick),
                    glacier_volumechange_remaining,
                    RetreatField(thick, thick_t0, glacier_volumechange_remaining),
                    heights),
                "retreat")

(***************************************************************************)
(* The advance loop, lines 494-589                                         *)
(***************************************************************************)
\* the thickness change with the entries below the threshold zeroed
AdvanceChangeBelow(change) ==
    Array([i \in DOMAIN change |->
        IF RLt(change[i], R(icethickness_advancethreshold)) THEN Zero ELSE change[i]])

\* icethickness_change with the entries at or below the threshold zeroed
AdvanceChange(change) ==
    Array([i \in DOMAIN change |->
        IF RLe(change[i], R(icethickness_advancethreshold)) THEN Zero ELSE change[i]])

\* lines 508-510: the advancing bins keep the threshold of their gain
CappedThick(t, chg) ==
    Array([i \in DOMAIN t |->
        IF chg[i] # Zero
        THEN RSub(t[i], RSub(chg[i], R(icethickness_advancethreshold)))
        ELSE t[i]])

\* lines 513-515: the volume taken off the advancing bins
AdvanceVolume(raw, capped, idx) ==
    RSub(RSumOver(Times(Scale(widths_m(raw), R(fl.dx_meter)), raw), idx),
         RSumOver(Times(Scale(widths_m(capped), R(fl.dx_meter)), capped), idx))

\* lines 520-524: the bins whose surface lies below the lowest active bin
LowerBins(t) ==
    LET sh == surface_h(t)
        min_elev == RMinOver(sh, Nonzero(t))
    IN  {i \in DOMAIN t : RLt(sh[i], min_elev)}

\* the lowest of them
Bin2AddLowest(t) ==
    LET sh == surface_h(t)
        bottom == RMinOver(sh, LowerBins(t))
    IN  First({i \in DOMAIN t : sh[i] = bottom})

\* the highest of them, the first bin at that elevation
Bin2Add(t) ==
    LET sh == surface_h(t)
        top == RMaxOver(sh, LowerBins(t))
    IN  First({i \in DOMAIN t : sh[i] = top})

\* the terminus kept at a single bin when only one qualifies
TerminusBinsUnlessNone(idx, hts) ==
    LET hmin == RMinOver(hts, idx)
        hmax == RMaxOver(hts, idx)
        low == IF hmax = hmin THEN {}
               ELSE {i \in idx :
                        RLt(RMul(RDiv(RSub(hts[i], hmin), RSub(hmax, hmin)), R(100)),
                            R(terminus_percentage))}
    IN  IF Cardinality(low) < 1 THEN idx ELSE low

\* lines 531-538: the active bins in the lowest terminus_percentage of the
\* elevation range (a zero range compares as NaN: none), or all of them
\* when at most one qualifies
TerminusBins(idx, hts) ==
    LET hmin == RMinOver(hts, idx)
        hmax == RMaxOver(hts, idx)
        low == IF hmax = hmin THEN {}
               ELSE {i \in idx :
                        RLt(RMul(RDiv(RSub(hts[i], hmin), RSub(hmax, hmin)), R(100)),
                            R(terminus_percentage))}
    IN  IF Cardinality(low) <= 1 THEN idx ELSE low

\* the first bin of the flowline at the lowest elevation of the set
MinElevIdx(idx, hts) ==
    First({i \in DOMAIN hts : hts[i] = RMinOver(hts, idx)})

\* np.mean over a set of bins: NaN over none
MeanThick(t, idx) ==
    IF idx = {} THEN [nan |-> TRUE, v |-> Zero]
    ELSE [nan |-> FALSE, v |-> RDiv(RSumOver(t, idx), R(Cardinality(idx)))]

\* lines 545-561: the mean thickness of the terminus without its lowest
\* bin; list.remove raises when that bin is not in the list, and then the
\* terminus of the initial extent is used, where it may raise again
TerminusThicknessAvg(t, idx, hts) ==
    LET term == TerminusBins(idx, hts)
        m == MinElevIdx(term, hts)
        init == prm.glac_idx_initial
    IN  IF m \in term
        THEN [raised |-> FALSE, avg |-> MeanThick(t, term \ {m})]
        ELSE IF init = {}
        THEN [raised |-> TRUE, avg |-> MeanThick(t, {})]
        ELSE LET termI == TerminusBins(init, hts)
                 mI == MinElevIdx(termI, hts)
             IN  IF mI \in termI
                 THEN [raised |-> FALSE, avg |-> MeanThick(t, termI \ {mI})]
                 ELSE [raised |-> TRUE, avg |-> MeanThick(t, {})]

\* line 573: the bins below the lowest bin that has a width
BelowGlacier(glacier_area_t1, hts) ==
    LET low == RMinOver(hts, {i \in DOMAIN hts : RLt(Zero, glacier_area_t1[i])})
    IN  {i \in DOMAIN hts : RLt(hts[i], low)}

\* lines 581-585: the mass balance handed to the curve in the advance
AdvanceField(t, remaining) ==
    LET glacier_area_t0 == Scale(widths_m(t), R(fl.dx_meter))
    IN  Array([i \in DOMAIN t |->
            IF t[i] # Zero THEN RDiv(remaining, RSum(glacier_area_t0)) ELSE Zero])

\* what a pass of the advance loop did: how it ended, the advance volume
\* and what was left of it, the bin added and whether it was limited to the
\* terminus average, the thickness before the pass, glac_idx_advance and
\* the thickness after the cap of lines 508-510, and, each as a sequence
\* that is empty when the pass did not get there, the section first given
\* to the bin added, its thickness after lines 563-568, and the terminus
\* average
AdvanceRecord(out, volume, left, b, cap, section2add, filled2add, avg) ==
    [outcome |-> out, volume |-> volume, left |-> left,
     bin2add |-> b, capped |-> cap, before |-> thick,
     advancing |-> Nonzero(AdvanceChange(icethickness_change)),
     capthick |-> CappedThick(thick, AdvanceChange(icethickness_change)),
     section2add |-> section2add, filled2add |-> filled2add, terminus_avg |-> avg]

\* line 524 or lines 548/560 raise: the call ends with the exception
AdvanceRaise(t, chg, advance_volume, b, section2add) ==
    /\ thick' = t
    /\ icethickness_change' = chg
    /\ pc' = "crashed"
    /\ err' = "ValueError"
    /\ av' = AdvanceRecord("ValueError", advance_volume, advance_volume, b, FALSE,
                           section2add, <<>>, <<>>)
    /\ UNCHANGED <<glacier_volumechange_remaining, cv, diag>>

\* lines 571-589: with volume left the flowline is put back when no bin
\* lies below the glacier, and the volume goes through the curve otherwise
AdvanceRemaining(chg, glacier_area_t1, advance_volume, b, over, filled, left, s2a, avg) ==
    IF ~RLt(Zero, left)
    THEN /\ thick' = filled
         /\ icethickness_change' = chg
         /\ pc' = "advance"
         /\ av' = AdvanceRecord("placed", advance_volume, left, b, over,
                                s2a, <<filled[b]>>, <<avg>>)
         /\ UNCHANGED <<err, glacier_volumechange_remaining, cv, diag>>
    ELSE IF BelowGlacier(glacier_area_t1, heights) = {}
    THEN \* self.fls[0].section = section_t0_raw
         /\ thick' = SetSection(section(thick))
         /\ icethickness_change' = chg
         /\ pc' = "advance"
         /\ av' = AdvanceRecord("revert", advance_volume, Zero, b, over,
                                s2a, <<filled[b]>>, <<avg>>)
         /\ UNCHANGED <<err, glacier_volumechange_remaining, cv, diag>>
    ELSE /\ av' = AdvanceRecord("redistribute", advance_volume, left, b, over,
                                s2a, <<filled[b]>>, <<avg>>)
         /\ Continue(massredistributioncurveHuss(
                         filled, section(filled), filled, widths_m(filled),
                         Nonzero(filled), left,
                         AdvanceField(filled, glacier_volumechange_remaining),
                         heights),
                     "advance")

\* thick[glac_idx_bin2add] > terminus_thickness_avg, false against NaN
ExceedsAverage(t, avg) == ~avg.nan /\ RLt(avg.v, t)

\* the bin added left as thick as its section makes it
FillUnlimited(added, b, avg) == added

\* lines 564-565: the bin added is taken down to the terminus average
FillToAverage(added, b, avg) ==
    IF ExceedsAverage(added[b], avg) THEN [added EXCEPT ![b] = avg.v] ELSE added

\* lines 563-568: the new bin is filled up to the terminus average
AdvanceFill(chg, glacier_area_t1, advance_volume, b, added, ta) ==
    LET over == ExceedsAverage(added[b], ta.avg)
        filled == FillToAverage(added, b, ta.avg)
    IN  IF ta.raised
        THEN AdvanceRaise(added, chg, advance_volume, b, <<section(added)[b]>>)
        ELSE AdvanceRemaining(chg, glacier_area_t1, advance_volume, b, over, filled,
                 IF over
                 THEN RSub(advance_volume, RMul(section(filled)[b], R(fl.dx_meter)))
                 ELSE advance_volume,
                 <<section(added)[b]>>, ta.avg)

\* lines 516-561: the bin to add takes the advance volume as its section
AdvanceAdd(chg, capped, advance_volume, b) ==
    LET added == SetSection([section(capped) EXCEPT
                                ![b] = RDiv(advance_volume, R(fl.dx_meter))])
    IN  AdvanceFill(chg, Scale(widths_m(capped), R(fl.dx_meter)), advance_volume, b,
                    added, TerminusThicknessAvg(added, Nonzero(capped), heights))

\* lines 505-524 on the capped thickness
AdvanceCapped(chg, capped) ==
    IF LowerBins(capped) = {}
    THEN \* np.max of an empty array
         AdvanceRaise(capped, chg, AdvanceVolume(thick, capped, Nonzero(chg)), 0, <<>>)
    ELSE AdvanceAdd(chg, capped, AdvanceVolume(thick, capped, Nonzero(chg)),
                    Bin2Add(capped))

\* One pass of "while (icethickness_change > threshold).any()".  It ends in
\* one of: "ValueError" (no bin lies below the terminus, line 524, or
\* list.remove at lines 548/560), "revert" (no bin below the glacier, line
\* 576), "redistribute" (lines 581-589), "placed" (no volume left).
AdvancePass ==
    /\ pc = "advance"
    /\ npass < MaxPass
    /\ npass' = npass + 1
    /\ UNCHANGED nretreat
    /\ UNCHANGED <<fl, prm, sel, rs, ru, calls, mb_calls, year, branch, heights, thick_t0,
                   massbal, glacier_volumechange>>
    /\ AdvanceCapped(AdvanceChange(icethickness_change),
                     CappedThick(thick, AdvanceChange(icethickness_change)))

(***************************************************************************)
(* run_until, after the update (lines 96-105)                              *)
(***************************************************************************)
\* the thickness the last bin may have, line 98
DomainBoundThickness == 10

\* the test with the bound itself counted as outside
ExceedsDomainFromBound(t) == RLe(R(DomainBoundThickness), t[Len(t)])

\* self.yr: y0, set to 0 at line 68, plus the time run, which no method of
\* the class advances
ModelYear == 0

\* the targets of run_until over several years
RunTargets == 1 .. MaxYear

\* the loop of lines 93-95 has a year left
MoreYears == ru.on /\ ru.next + 1 < ru.y1

\* run_until(y1) is called on the model as constructed or after an earlier
\* run_until with a lower target has returned: years = arange(self.yr, y1)
RunUntilBegin(y1) ==
    /\ pc = "idle" /\ rs.calls = 0
    /\ ~ru.on
    /\ ru.calls = 0 => calls = 0
    /\ ru.y1 < y1
    /\ ModelYear < y1
    /\ calls < MaxCalls
    /\ ru' = [ru EXCEPT !.calls = @ + 1, !.on = TRUE, !.y1 = y1, !.next = ModelYear]
    /\ UNCHANGED <<fl, thick, prm, pc, err, calls, mb_calls, year, branch,
                   heights, thick_t0, massbal, glacier_volumechange,
                   icethickness_change, glacier_volumechange_remaining,
                   cv, av, npass, nretreat, diag, sel, rs>>

\* "for year in years": the update of a year has returned and the next
\* year follows
RunUntilNextYear ==
    /\ pc = "check"
    /\ MoreYears
    /\ pc' = "idle"
    /\ ru' = [ru EXCEPT !.next = @ + 1]
    /\ UNCHANGED <<fl, thick, prm, err, calls, mb_calls, year, branch,
                   heights, thick_t0, massbal, glacier_volumechange,
                   icethickness_change, glacier_volumechange_remaining,
                   cv, av, npass, nretreat, diag, sel, rs>>

\* self.fls[-1].thick[-1] > 10
ExceedsDomain(t) == RLt(R(DomainBoundThickness), t[Len(t)])

\* "Check for domain bounds"; the NaN check after it finds nothing, the
\* thicknesses being finite when updategeometry returns
RunUntilCheck ==
    /\ pc = "check"
    /\ ~MoreYears
    /\ IF prm.check_for_boundaries /\ ExceedsDomain(thick)
       THEN pc' = "crashed" /\ err' = "RuntimeError"
       ELSE pc' = (IF rs.on THEN "sample" ELSE "idle") /\ err' = err
    /\ ru' = [ru EXCEPT !.on = FALSE]
    /\ UNCHANGED <<fl, thick, prm, calls, mb_calls, year, branch,
                   heights, thick_t0, massbal, glacier_volumechange,
                   icethickness_change, glacier_volumechange_remaining,
                   cv, av, npass, nretreat, diag, sel, rs>>

(***************************************************************************)
(* run_until_and_store                                                     *)
(***************************************************************************)
\* run_until_and_store is called once, on the model as constructed.
\* the y1 handed in: whole and half years
StoreYears == {RNorm(n, 2) : n \in 0 .. (2 * MaxYear)}

\* mb_model.hemisphere when the call is made; "none" is one not set
Hemispheres == {"none", "nh"}

\* self.volume_m3: the sections times the bin spacing
TotalVolumeM3(t) == RSum(Scale(section(t), R(fl.dx_meter)))

\* int(y1), y1 not negative
IntOf(y1) == y1[1] \div y1[2]

\* the tests of lines 142-149 with the hemisphere left unread
ValidStoreArgsAnyHemisphere(y1, hemisphere) == R(IntOf(y1)) = y1

\* neither test of lines 142-149 raises
ValidStoreArgs(y1, hemisphere) == R(IntOf(y1)) = y1 /\ hemisphere # "none"

\* the call raises InvalidParamsError
StoreInvalid(y1, hemisphere) ==
    /\ pc = "idle" /\ calls = 0
    /\ rs.calls = 0 /\ ru.calls = 0
    /\ ~ValidStoreArgs(y1, hemisphere)
    /\ rs' = [rs EXCEPT !.calls = @ + 1, !.y1 = y1, !.hemisphere = hemisphere]
    /\ pc' = "crashed"
    /\ err' = "InvalidParamsError"
    /\ UNCHANGED <<fl, thick, prm, calls, mb_calls, year, branch,
                   heights, thick_t0, massbal, glacier_volumechange,
                   icethickness_change, glacier_volumechange_remaining,
                   cv, av, npass, nretreat, diag, sel, ru>>

\* the call up to its first run_until: the time axis, self.yr being 0, is
\* 0 .. floor(y1); every series is created as NaN over it; the loop runs
\* over all but the last entry and in its first pass writes the state it
\* starts from at index 0
StoreBegin(y1, hemisphere) ==
    /\ pc = "idle" /\ calls = 0
    /\ rs.calls = 0 /\ ru.calls = 0
    /\ ValidStoreArgs(y1, hemisphere)
    /\ IntOf(y1) <= MaxYear
    /\ IntOf(y1) <= MaxCalls
    /\ rs' = [calls |-> rs.calls + 1, y1 |-> y1, hemisphere |-> hemisphere,
              on |-> IntOf(y1) > 0, done |-> IntOf(y1) = 0,
              ny |-> IntOf(y1) + 1, i |-> 0,
              sampled |-> IF IntOf(y1) > 0 THEN {0} ELSE {},
              ela |-> {}, calving |-> {},
              j |-> 0, start |-> thick,
              sects |-> [k \in 0 .. IntOf(y1) |-> <<>>],
              volume_m3 |-> [k \in 0 .. IntOf(y1) |->
                               IF k = 0 /\ IntOf(y1) > 0
                               THEN <<TotalVolumeM3(thick)>> ELSE <<>>]]
    /\ UNCHANGED <<fl, thick, prm, pc, err, calls, mb_calls, year, branch,
                   heights, thick_t0, massbal, glacier_volumechange,
                   icethickness_change, glacier_volumechange_remaining,
                   cv, av, npass, nretreat, diag, sel, ru>>

\* the rest of a loop pass once run_until(yr, run_single_year=True) is
\* back: the diagnostics at i + 1, the calving at i, and the return after
\* the last pass
StoreSample ==
    /\ pc = "sample"
    /\ pc' = "idle"
    /\ rs' = [rs EXCEPT !.sampled = @ \cup {rs.i + 1},
                        !.calving = IF prm.is_tidewater THEN @ \cup {rs.i} ELSE @,
                        !.i = rs.i + 1,
                        !.j = rs.j + 1,
                        !.sects = [@ EXCEPT ![rs.j] = <<section(thick)>>],
                        !.volume_m3 = [@ EXCEPT ![rs.i + 1] = <<TotalVolumeM3(thick)>>],
                        !.on = rs.i + 1 < rs.ny - 1,
                        !.done = ~(rs.i + 1 < rs.ny - 1)]
    /\ UNCHANGED <<fl, thick, prm, err, calls, mb_calls, year, branch,
                   heights, thick_t0, massbal, glacier_volumechange,
                   icethickness_change, glacier_volumechange_remaining,
                   cv, av, npass, nretreat, diag, sel, ru>>

Next ==
    \/ \E y \in Years, mb \in MBFields(Len(thick)) : UpdateFrozen(y, mb)
    \/ \E y \in Years : UpdateNoIce(y)
    \/ \E y \in Years, mb \in MBFields(Len(thick)) : UpdateRedistribute(y, mb)
    \/ RetreatPass
    \/ AdvancePass
    \/ RunUntilCheck
    \/ \E y1 \in StoreYears, h \in Hemispheres : StoreInvalid(y1, h)
    \/ \E y1 \in StoreYears, h \in Hemispheres : StoreBegin(y1, h)
    \/ StoreSample

Spec == Init /\ [][Next]_vars

(***************************************************************************)
(* run_until over several years (run_single_year left False): the calls    *)
(* are made on the model as constructed, one after the return of the       *)
(* other; once the first is made the yearly updates are those of their     *)
(* loops.                                                                  *)
(***************************************************************************)
RunNext ==
    \/ \E y \in Years, mb \in MBFields(Len(thick)) : UpdateFrozen(y, mb)
    \/ \E y \in Years : UpdateNoIce(y)
    \/ \E y \in Years, mb \in MBFields(Len(thick)) : UpdateRedistribute(y, mb)
    \/ RetreatPass
    \/ AdvancePass
    \/ \E y1 \in RunTargets : RunUntilBegin(y1)
    \/ RunUntilNextYear
    \/ RunUntilCheck

RunSpec == Init /\ [][RunNext]_vars

(***************************************************************************)
(* The coefficient selection of the curve on its own (lines 636-647): the  *)
(* glacier area is the masked width times dx, and the coefficients are     *)
(* read when more than 3 bins are active.                                  *)
(***************************************************************************)
\* the widths tried in a bin
SelWidths == {1, 5, 8}

SelInit ==
    /\ Constructed(CHOOSE f \in Flowlines : Len(f.thick) = 5 /\ f.thick[1] = 6,
                   CHOOSE o \in Options : o.option_areaconstant, 1)
    /\ rs = NoStore /\ ru = NoRun
    /\ \E w \in [1..5 -> SelWidths], t \in [1..5 -> {0, 1}] :
           sel = [width |-> Ints(w), thk |-> Ints(t), k |-> <<>>]

SelectCoefficients ==
    /\ sel.k = <<>>
    /\ UseCurve(Nonzero(sel.thk))
    /\ sel' = [sel EXCEPT !.k = <<HussCoefficients(RSum(MaskedArea(sel.width, sel.thk)))>>]
    /\ UNCHANGED <<fl, thick, prm, pc, err, calls, mb_calls, year, branch,
                   heights, thick_t0, massbal, glacier_volumechange,
                   icethickness_change, glacier_volumechange_remaining,
                   cv, av, npass, nretreat, diag, rs, ru>>

SelNext == SelectCoefficients

SelSpec == SelInit /\ [][SelNext]_vars

(***************************************************************************)
(* Properties                                                              *)
(***************************************************************************)
\* a yearly update has returned
Returned == calls > 0 /\ pc \in {"check", "sample", "idle"}

\* the step is the start of a yearly update
CallStep == calls' = calls + 1

\* C1: when the year's loss meets or exceeds the glacier's total volume,
\* every bin's cross-sectional area and thickness are zero after the update.
C1_VanishesOnTotalLoss ==
    (Returned /\ branch = "gone") =>
        \A i \in DOMAIN thick : thick[i] = Zero /\ section(thick)[i] = Zero

\* C2: for a single invocation of the curve function (curve branch or
\* fallback branch) in which no bin is limited at zero, the volume change
\* applied to the flowline, summed over the bins, equals the volume change
\* passed in.
C2_InvocationConservesVolume ==
    (cv.branch \in {"curve", "fallback"} /\ ~cv.clamped) => cv.applied = cv.requested

\* C3: a yearly update in a year that is constant-area, spin-up or within
\* the constant-area window calls the mass-balance provider once and leaves
\* thickness, section and width of every bin as they were.
C3_FrozenYearKeepsGeometry ==
    [][(CallStep /\ (\/ prm.option_areaconstant
                     \/ year' < prm.spinupyears
                     \/ year' < prm.constantarea_years))
        => /\ mb_calls' = mb_calls + 1
           /\ thick' = thick
           /\ section(thick') = section(thick)
           /\ widths_m(thick') = widths_m(thick)
           /\ pc' = "check"]_vars

\* a frozen update of a glacier with ice, frozen by the constant-area window only
C3_Witness ==
    /\ Returned /\ branch = "frozen" /\ mb_calls > 0
    /\ ~prm.option_areaconstant /\ ~(year < prm.spinupyears)
    /\ year < prm.constantarea_years
    /\ Nonzero(thick) # {}
    /\ massbal # Zeros(thick)

\* C4: in every state reached by yearly updates, retreat passes and advance
\* passes, every bin's thickness, width and cross-sectional area are
\* non-negative.
C4_GeometryNonNegative ==
    \A i \in DOMAIN thick :
        /\ RLe(Zero, thick[i])
        /\ RLe(Zero, widths_m(thick)[i])
        /\ RLe(Zero, section(thick)[i])

\* a curve invocation has limited a bin at zero and the bin has lost its ice
C4_Witness ==
    /\ cv.clamped
    /\ \E i \in DOMAIN thick : thick[i] = Zero /\ thick_t0[i] # Zero

\* C5: when the advance loop needs a new bin and no bin lies below the
\* glacier, the advance is given up without an error: the section is back
\* at its value before the pass and the loop has stopped.
C5_AdvanceGivenUpCleanly ==
    (\/ av.outcome = "revert"
     \/ (av.outcome = "ValueError" /\ av.bin2add = 0))
        => /\ err = "none"
           /\ pc # "advance"
           /\ thick = av.before

\* C6: the retreat loop ends: each pass takes the ice off at least one more
\* bin or brings the remaining volume change closer to zero; a pass after
\* which the loop goes on has taken the ice off a bin, so the passes are at
\* most as many as the bins; and the loop is left with the remaining volume
\* change at zero.
C6_RetreatLoopEnds ==
    [][pc = "retreat" =>
        /\ \/ (Nonzero(thick') \subseteq Nonzero(thick) /\ Nonzero(thick') # Nonzero(thick))
           \/ RLt(RAbs(glacier_volumechange_remaining'),
                  RAbs(glacier_volumechange_remaining))
        /\ pc' = "retreat" =>
              (Nonzero(thick') \subseteq Nonzero(thick) /\ Nonzero(thick') # Nonzero(thick))
        /\ pc' # "retreat" => glacier_volumechange_remaining' = Zero]_vars

\* an update has returned after two passes of the retreat loop
C6_Witness ==
    /\ Returned /\ branch = "redistribute" /\ nretreat >= 2
    /\ glacier_volumechange_remaining = Zero

\* C7: the advance loop ends: from one pass to the next advance_volume
\* gets strictly smaller and no bin with ice is left without.
C7_AdvanceVolumeDecreases ==
    [][(pc = "advance" /\ av.outcome # "none" /\ npass' = npass + 1)
        => /\ RLt(av'.volume, av.volume)
           /\ Nonzero(thick) \subseteq Nonzero(thick')]_vars

\* C8: when the retreat loop has finished, the remaining volume change is
\* zero and every bin the retreat has emptied is recorded with area,
\* thickness and width zero.
C8_RetreatedBinsRecordedEmpty ==
    (Returned /\ branch = "redistribute" /\ nretreat > 0) =>
        /\ glacier_volumechange_remaining = Zero
        /\ \A i \in DOMAIN thick :
              (thick_t0[i] # Zero /\ thick[i] = Zero) =>
                  /\ diag[year].thick[i] = Zero
                  /\ diag[year].width[i] = Zero
                  /\ diag[year].area[i] = Zero

\* C9: no bin whose bed lies below the lowest bin of the initial extent
\* has ice.
C9_NoIceBelowInitialExtent ==
    prm.glac_idx_initial # {} =>
        \A i \in DOMAIN thick :
            thick[i] # Zero =>
                \E j \in prm.glac_idx_initial : fl.bed_h[j] <= fl.bed_h[i]

\* C10: a yearly update in a year that is not frozen, with a mass balance
\* of zero in every bin, leaves thickness, section and width of every bin
\* as they were, and enters neither the retreat nor the advance loop.
C10_ZeroForcingChangesNothing ==
    [][(CallStep /\ branch' \in {"redistribute", "gone"} /\ massbal' = Zeros(thick))
        => /\ thick' = thick
           /\ section(thick') = section(thick)
           /\ widths_m(thick') = widths_m(thick)
           /\ glacier_volumechange' = Zero
           /\ pc' = "check"]_vars

\* an update with zero mass balance has gone through the curve and returned
C10_Witness ==
    /\ Returned /\ branch = "redistribute" /\ massbal = Zeros(thick)
    /\ cv.branch = "curve" /\ cv.requested = Zero
    /\ Nonzero(thick) # {}

\* glac_wide_area: the widths times the bin spacing, summed
AreaTotal(t) == RSum(Scale(widths_m(t), R(fl.dx_meter)))

\* the mass balance is the same negative value in every bin
UniformLoss(mb) == \A i \in DOMAIN mb : mb[i] = mb[1] /\ RLt(mb[i], Zero)

\* C11: with constant-area mode off and the same negative mass balance in
\* every bin, no step of a yearly update (the first redistribution, a
\* retreat pass, an advance pass) raises the glacier's total volume or its
\* total area, so neither rises from one yearly update to the next.
C11_UniformLossNeverGrows ==
    [][(~prm.option_areaconstant /\ UniformLoss(massbal'))
        => /\ RLe(VolumeTotal(thick'), VolumeTotal(thick))
           /\ RLe(AreaTotal(thick'), AreaTotal(thick))]_vars

\* two updates with a uniform loss have returned, the second after a retreat
\* pass, and volume and area are below those at the start of the second
C11_Witness ==
    /\ Returned /\ calls = 2 /\ branch = "redistribute" /\ nretreat > 0
    /\ UniformLoss(massbal)
    /\ RLt(VolumeTotal(thick), VolumeTotal(thick_t0))
    /\ RLt(AreaTotal(thick), AreaTotal(thick_t0))

\* the area of the bins with ice in the selection: their width times dx
SelArea == RSumOver([i \in DOMAIN sel.width |-> RMul(sel.width[i], R(fl.dx_meter))], Nonzero(sel.thk))

\* C12: with at least 4 active bins the coefficients depend on the summed
\* area of the active bins alone: above 20 they are (6, -0.02, 0.12, 0),
\* above 5 and up to 20 (4, -0.05, 0.19, 0.01), up to 5
\* (2, -0.30, 0.60, 0.09); an area of exactly 20 takes the second set and
\* an area of exactly 5 the third.
C12_CoefficientsByArea ==
    sel.k # <<>> =>
        /\ Cardinality(Nonzero(sel.thk)) >= 4
        /\ (RLt(R(20), SelArea)
               => sel.k[1] = [gamma |-> 6, a |-> <<-1, 50>>, b |-> <<3, 25>>, c |-> <<0, 1>>])
        /\ (RLt(R(5), SelArea) /\ RLe(SelArea, R(20))
               => sel.k[1] = [gamma |-> 4, a |-> <<-1, 20>>, b |-> <<19, 100>>, c |-> <<1, 100>>])
        /\ (RLe(SelArea, R(5))
               => sel.k[1] = [gamma |-> 2, a |-> <<-3, 10>>, b |-> <<3, 5>>, c |-> <<9, 100>>])

\* the coefficients were read for an area of exactly 20 with a bin of
\* width 8 left out for having no ice
C12_Witness ==
    /\ sel.k # <<>> /\ SelArea = R(20)
    /\ \E i \in DOMAIN sel.thk : sel.thk[i] = Zero /\ sel.width[i] = R(8)

C14_WrittenDiagnosticsKept ==
    [][\A y \in Years : diag[y].set => diag'[y] = diag[y]]_vars

C16_InvalidStoreCallChangesNothing ==
    [][(rs'.calls = rs.calls + 1 /\ (rs'.y1[2] # 1 \/ rs'.hemisphere = "none"))
        => /\ pc' = "crashed" /\ err' = "InvalidParamsError"
           /\ ~rs'.on /\ ~rs'.done /\ rs'.ny = 0
           /\ rs'.sampled = {} /\ rs'.ela = {} /\ rs'.calving = {}
           /\ UNCHANGED <<fl, thick, prm, calls, mb_calls, year, branch, heights,
                          thick_t0, massbal, glacier_volumechange, icethickness_change,
                          glacier_volumechange_remaining, diag>>]_vars

\* a call with a whole y1 and no hemisphere has raised on a glacier with ice
C16_Witness ==
    /\ err = "InvalidParamsError" /\ pc = "crashed"
    /\ rs.calls = 1 /\ rs.y1 = <<1, 1>> /\ rs.hemisphere = "none"
    /\ Nonzero(thick) # {}

\* C18: when run_until_and_store has returned, every entry of every scalar
\* series (volume, area, length, ELA, and calving for a tidewater glacier)
\* holds a sampled value: no index of the time axis is left unset.
C18_EverySeriesEntrySampled ==
    rs.done =>
        \A idx \in 0 .. (rs.ny - 1) :
            /\ idx \in rs.sampled
            /\ idx \in rs.ela
            /\ prm.is_tidewater => idx \in rs.calving

\* C17: a model constructed on a number of flowlines other than one is
\* rejected by the constructor: it never takes a step, so no yearly update
\* and no run_until_and_store call is ever made on it.
C17_OnlyOneFlowlineRuns ==
    prm.nfls # 1 =>
        /\ pc = "rejected" /\ err = "AssertionError"
        /\ calls = 0 /\ mb_calls = 0 /\ rs.calls = 0
        /\ \A y \in Years : ~diag[y].set

\* the constructor has rejected two flowlines with ice
C17_Witness ==
    /\ prm.nfls = 2 /\ pc = "rejected" /\ err = "AssertionError"
    /\ Nonzero(thick) # {}

C20_RetreatFieldOverActiveArea ==
    [][pc = "retreat" =>
          \A i \in DOMAIN thick :
              cv'.field[i] =
                  IF thick[i] # Zero
                  THEN RDiv(glacier_volumechange_remaining,
                            RSumOver([j \in DOMAIN thick |->
                                         RMul(widths_m(thick)[j], R(fl.dx_meter))],
                                     Nonzero(thick)))
                  ELSE Zero]_vars

\* a pass of the advance loop is made in the step
AdvanceStep == pc = "advance" /\ npass' = npass + 1

\* C21: in an advance pass that fills the new bin to no more than the
\* terminus average, the whole advance volume stays in the new bin: the
\* pass ends with the volume placed, and the curve function is not invoked
\* with it.
C21_NoLeftoverNoRedistribution ==
    [][(AdvanceStep /\ av'.outcome # "ValueError" /\ ~av'.capped)
        => /\ av'.outcome = "placed"
           /\ cv' = cv
           /\ thick'[av'.bin2add] =
                  RDiv(RDiv(av'.volume, R(fl.dx_meter)), R(fl.w0[av'.bin2add]))]_vars

\* C22: in an advance pass the advancing bins are exactly the bins whose
\* thickness change is above the advance threshold of 5, the entries of the
\* change at or below it being zeroed; after the cap every advancing bin
\* has the thickness it had before the redistribution that made the
\* change, plus exactly the threshold, and every other bin its thickness.
C22_AdvancingBinsCappedAtThreshold ==
    [][AdvanceStep =>
          /\ av'.advancing = {i \in DOMAIN thick : RLt(<<5, 1>>, icethickness_change[i])}
          /\ \A i \in DOMAIN thick :
                 av'.capthick[i] =
                     IF i \in av'.advancing
                     THEN RAdd(cv.thk_t0[i], <<5, 1>>)
                     ELSE thick[i]
          /\ av'.outcome \in {"revert", "ValueError"} =>
                 \A i \in DOMAIN thick :
                     icethickness_change'[i] =
                         IF i \in av'.advancing THEN icethickness_change[i] ELSE Zero]_vars

\* a pass of the advance loop has capped a bin whose change was above the
\* threshold and left alone a bin whose change was the threshold itself
C22_Witness ==
    /\ av.outcome \in {"revert", "ValueError"}
    /\ \E i \in av.advancing : av.capthick[i] # av.before[i]
    /\ \E i \in DOMAIN thick :
           /\ i \notin av.advancing
           /\ av.before[i] = RAdd(cv.thk_t0[i], <<5, 1>>)
           /\ av.capthick[i] = av.before[i]
           /\ icethickness_change[i] = Zero

\* the surface elevation of bin i after the cap of the last advance pass
CappedSurface(i) == RAdd(<<fl.bed_h[i], 1>>, av.capthick[i])

\* C23: the bin an advance pass adds lies strictly below the lowest bin with
\* ice, no bin strictly below the lowest bin with ice lies higher than it,
\* and it had no ice before the pass.
C23_NewBinNextBelowTerminus ==
    (av.outcome # "none" /\ av.bin2add # 0) =>
        /\ av.before[av.bin2add] = Zero
        /\ \A i \in DOMAIN thick :
               av.capthick[i] # Zero => RLt(CappedSurface(av.bin2add), CappedSurface(i))
        /\ \A j \in DOMAIN thick :
               (\A i \in DOMAIN thick :
                    av.capthick[i] # Zero => RLt(CappedSurface(j), CappedSurface(i)))
                 => RLe(CappedSurface(j), CappedSurface(av.bin2add))

\* a pass has added a bin with a further bin without ice below it
C23_Witness ==
    /\ av.outcome # "none" /\ av.bin2add # 0
    /\ \E j \in DOMAIN thick :
           /\ av.capthick[j] = Zero
           /\ RLt(CappedSurface(j), CappedSurface(av.bin2add))

\* C24: in an advance pass the section of the bin added is first set to
\* the advance volume divided by the bin spacing, and after the check
\* against the terminus average the thickness of that bin does not exceed
\* the terminus average.
C24_NewBinFilledToAverage ==
    av.section2add # <<>> =>
        /\ RMul(av.section2add[1], <<fl.dx_meter, 1>>) = av.volume
        /\ av.filled2add # <<>> =>
               /\ ~av.terminus_avg[1].nan =>
                      RLe(av.filled2add[1], av.terminus_avg[1].v)
               /\ av.capped <=>
                      /\ ~av.terminus_avg[1].nan
                      /\ av.filled2add[1] = av.terminus_avg[1].v
                      /\ RLt(av.filled2add[1],
                             RDiv(av.section2add[1], <<fl.w0[av.bin2add], 1>>))

\* a pass has given the bin added more than the terminus average and has
\* taken it down to the average
C24_Witness ==
    /\ av.filled2add # <<>> /\ av.capped
    /\ RLt(Zero, av.filled2add[1])
    /\ RLt(RMul(av.filled2add[1], <<fl.w0[av.bin2add], 1>>), av.section2add[1])

\* the thickness the terminus average is taken over: the capped thickness
\* with the bin added holding its first section
AveragedThick == SetSection([section(av.capthick) EXCEPT ![av.bin2add] = av.section2add[1]])

\* the bins of S in the lowest terminus_percentage of its elevation range,
\* which spans from lo to hi
LowestFifthBetween(S, lo, hi) == {i \in S : RLt(RMul(RSub(heights[i], lo), <<100, 1>>), RMul(<<20, 1>>, RSub(hi, lo)))}
LowestFifth(S) == LowestFifthBetween(S, RMinOver(heights, S), RMaxOver(heights, S))

\* the terminus of S given its lowest fifth: all of S when fewer than 2 qualify
TerminusGiven(S, fifth) == IF Cardinality(fifth) < 2 THEN S ELSE fifth
TerminusOf(S) == TerminusGiven(S, LowestFifth(S))

\* the first bin of the flowline at the lowest elevation of S
LowestOf(S) == CHOOSE i \in DOMAIN heights : heights[i] = RMinOver(heights, S) /\ (\A j \in DOMAIN heights : heights[j] = heights[i] => i <= j)

\* the active bins of the capped flowline and the set the average is over
ActiveCapped == {i \in DOMAIN av.capthick : av.capthick[i] # Zero}
AveragingFailsOver(T) == LowestOf(T) \notin T
AveragingFails == AveragingFailsOver(TerminusOf(ActiveCapped))
AveragedSetGiven(T) == IF AveragingFailsOver(T) THEN TerminusOf(prm.glac_idx_initial) ELSE T
AveragedSet == AveragedSetGiven(TerminusOf(ActiveCapped))

\* the recorded average is the mean thickness over T less its lowest bin
MeanWithoutLowest(T, lowest, t) ==
    /\ lowest \in T
    /\ av.terminus_avg[1].nan <=> T = {lowest}
    /\ T # {lowest} =>
           RMul(av.terminus_avg[1].v, <<Cardinality(T) - 1, 1>>) = RSumOver(t, T \ {lowest})
MeanOverTerminus(T) == MeanWithoutLowest(T, LowestOf(T), AveragedThick)

\* C25: the terminus average of an advance pass is the mean thickness over
\* the active bins in the lowest 20% of their elevation range, over all
\* active bins when fewer than 2 qualify, and over the terminus of the
\* initial extent when averaging that set fails, each time without the
\* lowest bin of the set.
C25_TerminusAverageOverChosenSet ==
    av.terminus_avg # <<>> => MeanOverTerminus(AveragedSet)

\* a pass has found the lowest bin of the active terminus missing from it
\* and has averaged over two bins of the initial extent less the lowest
C25_Witness ==
    /\ av.terminus_avg # <<>>
    /\ AveragingFails
    /\ Cardinality(LowestFifth(prm.glac_idx_initial)) = 2
    /\ ~av.terminus_avg[1].nan
    /\ RLt(Zero, av.terminus_avg[1].v)

\* C26: a non-frozen update of a glacier without a bin of positive thickness
\* runs no mass balance and no redistribution and records the year's
\* diagnostics, and a glacier without ice has none after any later step.
C26_VanishedGlacierStaysVanished ==
    [][/\ (CallStep /\ ~Frozen(year') /\ Nonzero(thick) = {}) =>
              /\ mb_calls' = mb_calls
              /\ cv' = cv /\ glacier_volumechange' = glacier_volumechange
              /\ thick' = thick
              /\ pc' = "check"
              /\ diag'[year'].set
              /\ diag'[year'].thick = thick
              /\ diag'[year'].wide_volume = Zero
       /\ Nonzero(thick) = {} => Nonzero(thick') = {}]_vars

\* two non-frozen updates of a flowline without ice have returned, each
\* without a mass-balance run and each with its year recorded as empty
C26_Witness ==
    /\ Returned /\ branch = "noice" /\ calls = 2 /\ year = 1
    /\ Nonzero(thick) = {} /\ mb_calls = 0
    /\ diag[0].set /\ diag[0].wide_volume = Zero
    /\ diag[1].set /\ diag[1].wide_volume = Zero

\* the ice volume of a geometry: the sections times the bin spacing
TotalVolume(t) == RSum(Scale(section(t), R(fl.dx_meter)))

\* C27: after a non-frozen update whose loss is below the glacier's volume
\* the total volume has changed by exactly the requested volume change,
\* with no correction, after retreat passes, and after advance passes that
\* found a bin to add.
C27_UpdateConservesVolume ==
    (Returned /\ branch = "redistribute" /\ av.outcome \in {"none", "placed", "redistribute"}) =>
        RSub(TotalVolume(thick), TotalVolume(thick_t0)) = glacier_volumechange

\* C28: the volume change remaining that a curve invocation returns is never
\* positive: it is zero when no bin was limited at zero and negative
\* otherwise; the advance loop is entered on the thickness-change field
\* alone, and no update runs both a retreat pass and an advance pass.
C28_RemainingNeverPositive ==
    /\ cv.branch # "none" =>
           /\ RLe(cv.remaining, Zero)
           /\ cv.remaining = Zero <=> ~cv.clamped
           /\ cv.remaining = RSumOver([i \in DOMAIN thick |-> IF RLt(RAdd(RMul(cv.section_t0[i], <<fl.dx_meter, 1>>), cv.bin_volumechange[i]), Zero) THEN RAdd(RMul(cv.section_t0[i], <<fl.dx_meter, 1>>), cv.bin_volumechange[i]) ELSE Zero], DOMAIN thick)
    /\ pc = "advance" => \E i \in DOMAIN thick : RLt(<<5, 1>>, icethickness_change[i])
    /\ ~(nretreat > 0 /\ npass > 0)

\* an invocation has limited a bin at zero and returned a negative rest
\* although another bin gained more than the advance threshold: the retreat
\* loop is entered
C28_Witness ==
    /\ cv.clamped /\ RLt(cv.remaining, Zero)
    /\ pc = "retreat" /\ nretreat = 0
    /\ \E i \in DOMAIN thick : RLt(<<5, 1>>, icethickness_change[i])

\* C29: over run_until calls with increasing targets the update of each
\* model year is applied exactly once and in increasing order of the years;
\* a later call applies no year that an earlier call has applied.
C29_EachYearUpdatedOnce ==
    \A i \in DOMAIN ru.applied : \A j \in DOMAIN ru.applied :
        i < j => ru.applied[i] < ru.applied[j]

\* C30: when run_until_and_store has returned, the geometry snapshot and the
\* volume stored at the same time index describe the same glacier state,
\* and index 0 of both holds the state the call started from.
C30_SnapshotMatchesDiagnostics ==
    (rs.done /\ rs.ny > 1) =>
        /\ \A k \in 0 .. (rs.ny - 1) :
               /\ rs.sects[k] # <<>> /\ rs.volume_m3[k] # <<>>
               /\ rs.volume_m3[k][1] = RSumOver([i \in DOMAIN thick |-> RMul(rs.sects[k][1][i], <<fl.dx_meter, 1>>)], DOMAIN thick)
        /\ rs.sects[0] = <<section(rs.start)>>
        /\ rs.volume_m3[0][1] = RSumOver([i \in DOMAIN thick |-> RMul(section(rs.start)[i], <<fl.dx_meter, 1>>)], DOMAIN thick)

====
